---- MODULE Spec2Model ----
(***************************************************************************)
(* Model of dakaraneko's Song class (src/song.py): the choice of the       *)
(* naming-convention parser in pre_process and the field accessors that    *)
(* map a parse result to the representation sent to the server.            *)
(*                                                                         *)
(* The convention parsers (karaneko.nekoparse) and the base class          *)
(* (dakara_feeder.song.BaseSong) are libraries.  A stem is represented by  *)
(* the set of parser classes whose parse() accepts it, and the fields a    *)
(* successful parse() leaves on the parser are an input chosen when the    *)
(* parse succeeds.  A value returned by the base class is the opaque       *)
(* outcome Super(name).                                                    *)
(***************************************************************************)
EXTENDS Integers, Sequences, FiniteSets, TLC

\* ordinal numbers of openings and endings range over 0..MaxNbr (0: none given)
MaxNbr == 1

----------------------------------------------------------------------------
(* Constants of the module *)

\* the name of the cartoon directory is written here without its accent
SUBDIRECTORIES ==
    [cjk_music |-> "CJKmusic",
     w_music |-> "Wmusic",
     anime |-> "Anime",
     live_action |-> "Live Action",
     game |-> "Jeux",
     cartoon |-> "Dessins animes",
     other |-> "Autre"]

NekoParseMusic == "NekoParseMusic"
NekoParseAnime == "NekoParseAnime"
NekoParseCartoon == "NekoParseCartoon"

ParserClasses == {NekoParseMusic, NekoParseAnime, NekoParseCartoon}

\* variant: the Anime convention tried first
TRIAL_ORDER_anime_first == <<NekoParseAnime, NekoParseMusic, NekoParseCartoon>>

\* the tuple iterated by the for loop of pre_process
TRIAL_ORDER == <<NekoParseMusic, NekoParseAnime, NekoParseCartoon>>

\* NekoParseTagsMusic.tags and NekoParseTagsAnime.tags: tables of the parsing
\* library, each entry with the attribute name of the flag, its serializer
\* and its category
NekoParseTagsMusic_tags ==
    <<[name |-> "pv", serializer |-> "PV", category |-> "genre"],
      [name |-> "live", serializer |-> "LIVE", category |-> "genre"]>>

NekoParseTagsAnime_tags ==
    <<[name |-> "opening", serializer |-> "OP", category |-> "use"],
      [name |-> "ending", serializer |-> "ED", category |-> "use"],
      [name |-> "insert_song", serializer |-> "INS", category |-> "use"],
      [name |-> "image_song", serializer |-> "IS", category |-> "use"],
      [name |-> "live", serializer |-> "LIVE", category |-> "genre"]>>

----------------------------------------------------------------------------
(* Python values *)

\* None
None == "None"

\* truth value of a string held as an atom: the empty one is false
Truthy(v) == v # ""

\* truth value of a list, a path or a string held as its characters
NonEmpty(v) == Len(v) > 0

\* a or b
Or(a, b) == IF Truthy(a) THEN a ELSE b

\* d[k] = v on a dictionary
Put(d, k, v) == [x \in (DOMAIN d) \cup {k} |-> IF x = k THEN v ELSE d[x]]

\* k in d
HasKey(d, k) == k \in DOMAIN d

\* {}
EmptyDict == [x \in {} |-> None]

\* sep.join(list) on character sequences
RECURSIVE Join(_, _)
Join(sep, list) ==
    IF Len(list) = 0 THEN <<>>
    ELSE IF Len(list) = 1 THEN list[1]
    ELSE list[1] \o sep \o Join(sep, Tail(list))

\* ", "
CommaSpace == <<",", " ">>

\* the elements of a list that are true, in order
RECURSIVE Filter(_)
Filter(list) ==
    IF Len(list) = 0 THEN <<>>
    ELSE IF NonEmpty(list[1]) THEN <<list[1]>> \o Filter(Tail(list))
    ELSE Filter(Tail(list))

----------------------------------------------------------------------------
(* Inputs: paths and parse results *)

\* directory names outside the table
UnknownDirectories == {"Divers"}

FirstSegments ==
    {SUBDIRECTORIES[k] : k \in DOMAIN SUBDIRECTORIES} \cup UnknownDirectories

\* directories of a video path, relative to the base directory: none for a
\* file of the base directory, else one or two levels
DirectoryLists ==
    {<<>>} \cup {<<d>> : d \in FirstSegments}
           \cup {<<d, "sub">> : d \in FirstSegments}

\* a stem is given by the parser classes that accept it
Stems == SUBSET ParserClasses

VideoPaths == [dirs : DirectoryLists, stem : Stems]

Nbrs == 0 .. MaxNbr

BaseExtrasMusic ==
    [opening |-> "", opening_nbr |-> 0, ending |-> "", ending_nbr |-> 0,
     insert_song |-> "", image_song |-> "", original_artist |-> "",
     version |-> <<>>, video |-> <<>>, amv |-> <<>>, title_video |-> <<>>]

BaseMusic ==
    [title_music |-> "Song", singers |-> <<"Singer">>, composers |-> <<>>,
     details |-> "", extras |-> BaseExtrasMusic,
     tags |-> [pv |-> FALSE, live |-> FALSE]]

BaseExtrasAnime ==
    [artist |-> "", original_artist |-> "", version |-> <<>>, episodes |-> "",
     video |-> <<>>, amv |-> <<>>, title_video |-> <<>>]

BaseTagsAnime ==
    [opening |-> TRUE, opening_nbr |-> 0, ending |-> FALSE, ending_nbr |-> 0,
     insert_song |-> FALSE, image_song |-> FALSE, live |-> FALSE]

BaseAnime ==
    [title_music |-> "Song", title_anime |-> "Show", subtitle_anime |-> "",
     details |-> "", extras |-> BaseExtrasAnime, tags |-> BaseTagsAnime]

BaseCartoon ==
    [title_music |-> "Song", title_cartoon |-> "Toon", subtitle_cartoon |-> "",
     language |-> <<>>, details |-> "", extras |-> BaseExtrasAnime,
     tags |-> BaseTagsAnime]

\* the video extras, varied together
VideoExtras ==
    [video : {<<>>, <<"A">>}, amv : {<<>>, <<"B">>},
     title_video : {<<>>, <<"C">>, <<"C", "D">>}]

WithVideo(base, v) ==
    [base EXCEPT !.extras.video = v.video, !.extras.amv = v.amv,
                 !.extras.title_video = v.title_video]

\* results of NekoParseMusic.parse()
ResultsMusic ==
    {[BaseMusic EXCEPT !.extras.opening = o, !.extras.opening_nbr = on,
                       !.extras.ending = e, !.extras.ending_nbr = en,
                       !.extras.insert_song = i, !.extras.image_song = s] :
        o \in {"", "WorkA"}, on \in Nbrs, e \in {"", "WorkB"}, en \in Nbrs,
        i \in {"", "WorkC"}, s \in {"", "WorkD"}}
    \cup {WithVideo(BaseMusic, v) : v \in VideoExtras}
    \cup {[BaseMusic EXCEPT !.composers = c, !.extras.original_artist = oa,
                            !.extras.version = ve, !.details = d,
                            !.tags.pv = pv, !.tags.live = li] :
            c \in {<<>>, <<"Composer">>}, oa \in {"", "Original"},
            ve \in {<<>>, <<"v">>}, d \in {"", "detail"},
            pv \in BOOLEAN, li \in BOOLEAN}

\* the tags and episodes of an Anime or Cartoon result
TagsAnime ==
    [opening : BOOLEAN, opening_nbr : Nbrs, ending : BOOLEAN,
     ending_nbr : Nbrs, insert_song : BOOLEAN, image_song : BOOLEAN,
     live : {FALSE}]

\* results of NekoParseAnime.parse()
ResultsAnime ==
    {[BaseAnime EXCEPT !.tags = t, !.extras.episodes = ep,
                       !.subtitle_anime = st] :
        t \in TagsAnime, ep \in {"", "1, 2"}, st \in {"", "Season 2"}}
    \cup {WithVideo(BaseAnime, v) : v \in VideoExtras}
    \cup {[BaseAnime EXCEPT !.extras.artist = a, !.extras.original_artist = oa,
                            !.extras.version = ve, !.details = d,
                            !.tags.live = li] :
            a \in {"", "Artist"}, oa \in {"", "Original"},
            ve \in {<<>>, <<"v">>}, d \in {"", "detail"}, li \in BOOLEAN}

\* results of NekoParseCartoon.parse()
ResultsCartoon ==
    {[BaseCartoon EXCEPT !.tags = t, !.extras.episodes = ep,
                         !.subtitle_cartoon = st] :
        t \in TagsAnime, ep \in {"", "1, 2"}, st \in {"", "Season 2"}}
    \cup {WithVideo(BaseCartoon, v) : v \in VideoExtras}
    \cup {[BaseCartoon EXCEPT !.extras.artist = a, !.title_music = tm,
                              !.extras.version = ve, !.language = la,
                              !.tags.live = li] :
            a \in {"", "Artist"}, tm \in {"", "Song"},
            ve \in {<<>>, <<"v">>}, la \in {<<>>, <<"F">>}, li \in BOOLEAN}

ParseResults(class) ==
    IF class = NekoParseMusic THEN ResultsMusic
    ELSE IF class = NekoParseAnime THEN ResultsAnime
    ELSE ResultsCartoon

----------------------------------------------------------------------------
VARIABLES
    video_path,     \* the path of the song file, relative to the base directory
    pc,             \* "constructed", then "processed" once pre_process returned
    can_parse,      \* self.can_parse
    subdirectory,   \* self.subdirectory
    parser,         \* self.parser
    attempts,       \* the classes whose parse() pre_process called, in order
    ret             \* outcome of the last accessor call

vars == <<video_path, pc, can_parse, subdirectory, parser, attempts, ret>>

\* an attribute that is not set
Unset == "unset"

NoParser == [class |-> Unset, parsed |-> FALSE, result |-> None]

NoCall == [accessor |-> "none", outcome |-> None]

\* outcomes of a call: a returned value, the value of the base class's method
\* of that name, or an exception
Return(v, read) == [kind |-> "value", value |-> v, read_parser |-> read]
Super(name, read) == [kind |-> "default", of |-> name, read_parser |-> read]
Raise(error, read) == [kind |-> "raise", error |-> error, read_parser |-> read]

----------------------------------------------------------------------------
(* pre_process *)

\* video_path.splitall(): the empty root of a relative path, then its segments
splitall(path) == <<"">> \o path.dirs \o <<"file">>

\* video_path.parent, true unless the file lies in the base directory
parent(path) == path.dirs

\* get first relative subdirectory if possible
first_subdirectory(path) ==
    IF NonEmpty(parent(path)) THEN splitall(path)[2] ELSE ""

\* parser_class(stem).parse(): TRUE when it returns, FALSE when it raises
\* ConventionError
parse(class, stem) == class \in stem

\* variant: the game directory listed with the cartoon one
directory_parser_game_as_cartoon(sub) ==
    IF sub \in {SUBDIRECTORIES.cjk_music, SUBDIRECTORIES.w_music}
    THEN NekoParseMusic
    ELSE IF sub \in {SUBDIRECTORIES.anime, SUBDIRECTORIES.live_action}
    THEN NekoParseAnime
    ELSE IF sub \in {SUBDIRECTORIES.cartoon, SUBDIRECTORIES.game}
    THEN NekoParseCartoon
    ELSE None

\* the parser class the directory tells, None when it tells none
directory_parser(sub) ==
    IF sub \in {SUBDIRECTORIES.cjk_music, SUBDIRECTORIES.w_music}
    THEN NekoParseMusic
    ELSE IF sub \in {SUBDIRECTORIES.anime, SUBDIRECTORIES.live_action,
                     SUBDIRECTORIES.game}
    THEN NekoParseAnime
    ELSE IF sub \in {SUBDIRECTORIES.cartoon}
    THEN NekoParseCartoon
    ELSE None

\* variant: the loop without the return after a successful parse
RECURSIVE try_each_no_return(_, _, _, _)
try_each_no_return(classes, i, stem, last) ==
    IF i > Len(classes)
    THEN [can_parse |-> FALSE, class |-> last, parsed |-> last \in stem,
          tried |-> <<>>]
    ELSE LET rest == try_each_no_return(classes, i + 1, stem, classes[i])
         IN  [rest EXCEPT !.tried = <<classes[i]>> \o rest.tried]

\* the loop over the conventions, from the i-th class on
RECURSIVE try_each(_, _, _, _)
try_each(classes, i, stem, last) ==
    IF i > Len(classes)
    THEN [can_parse |-> FALSE, class |-> last, parsed |-> FALSE, tried |-> <<>>]
    ELSE IF parse(classes[i], stem)
    THEN [can_parse |-> TRUE, class |-> classes[i], parsed |-> TRUE,
          tried |-> <<classes[i]>>]
    ELSE LET rest == try_each(classes, i + 1, stem, classes[i])
         IN  [rest EXCEPT !.tried = <<classes[i]>> \o rest.tried]

\* variant: a ConventionError in the try block passes on to the loop
detect_by_directory_fall_through(sub, stem) ==
    IF directory_parser(sub) # None
    THEN LET class == directory_parser(sub)
         IN  [returned |-> parse(class, stem), can_parse |-> TRUE,
              class |-> class, parsed |-> parse(class, stem),
              tried |-> <<class>>]
    ELSE IF sub \in {SUBDIRECTORIES.other}
    THEN [returned |-> TRUE, can_parse |-> FALSE, class |-> Unset,
          parsed |-> FALSE, tried |-> <<>>]
    ELSE [returned |-> FALSE, can_parse |-> TRUE, class |-> Unset,
          parsed |-> FALSE, tried |-> <<>>]

\* the try block: one parser told by the directory, no parser for "other"
detect_by_directory(sub, stem) ==
    IF directory_parser(sub) # None
    THEN LET class == directory_parser(sub)
         IN  [returned |-> TRUE, can_parse |-> parse(class, stem),
              class |-> class, parsed |-> parse(class, stem),
              tried |-> <<class>>]
    ELSE IF sub \in {SUBDIRECTORIES.other}
    THEN [returned |-> TRUE, can_parse |-> FALSE, class |-> Unset,
          parsed |-> FALSE, tried |-> <<>>]
    ELSE [returned |-> FALSE, can_parse |-> TRUE, class |-> Unset,
          parsed |-> FALSE, tried |-> <<>>]

pre_process(path) ==
    LET sub == first_subdirectory(path)
        byDir == detect_by_directory(sub, path.stem)
        found == IF byDir.returned THEN byDir
                 ELSE try_each(TRIAL_ORDER, 1, path.stem, byDir.class)
    IN  [subdirectory |-> sub, can_parse |-> found.can_parse,
         class |-> found.class, parsed |-> found.parsed,
         tried |-> IF byDir.returned THEN byDir.tried
                   ELSE byDir.tried \o found.tried]

----------------------------------------------------------------------------
Init ==
    /\ video_path \in VideoPaths
    /\ pc = "constructed"
    /\ can_parse = Unset
    /\ subdirectory = Unset
    /\ parser = NoParser
    /\ attempts = <<>>
    /\ ret = NoCall

PreProcess ==
    /\ pc = "constructed"
    /\ LET done == pre_process(video_path)
       IN  /\ can_parse' = done.can_parse
           /\ subdirectory' = done.subdirectory
           /\ attempts' = done.tried
           /\ IF done.parsed
              THEN \E r \in ParseResults(done.class) :
                     parser' = [class |-> done.class, parsed |-> TRUE,
                                result |-> r]
              ELSE parser' = [class |-> done.class, parsed |-> FALSE,
                              result |-> None]
    /\ pc' = "processed"
    /\ UNCHANGED <<video_path, ret>>

----------------------------------------------------------------------------
(* Accessors.  Each takes the song's attributes and gives the outcome of   *)
(* the call.                                                               *)

\* variant: the decorator without its test of can_parse
default_if_cannot_parse_unguarded(self_can_parse, p, name, outcome) ==
    IF ~p.parsed THEN Raise("AttributeError", TRUE)
    ELSE outcome

\* the decorator: the base class's value if the song cannot be parsed, else
\* the decorated function, which reads fields of self.parser that only a
\* successful parse() sets
default_if_cannot_parse(self_can_parse, p, name, outcome) ==
    IF ~self_can_parse THEN Super(name, FALSE)
    ELSE IF ~p.parsed THEN Raise("AttributeError", TRUE)
    ELSE outcome

get_title_cartoon(p) ==
    Return(Or(p.result.title_music, p.result.title_cartoon), TRUE)

get_title(p) ==
    IF p.class = NekoParseCartoon THEN get_title_cartoon(p)
    ELSE Return(p.result.title_music, TRUE)

\* [{"name": artist} for artist in artists]
RECURSIVE Named(_)
Named(list) ==
    IF Len(list) = 0 THEN <<>>
    ELSE <<[name |-> list[1]]>> \o Named(Tail(list))

get_artists_music(p) ==
    LET artists == p.result.singers \o p.result.composers
        more == IF Truthy(p.result.extras.original_artist)
                THEN <<p.result.extras.original_artist>> ELSE <<>>
    IN  Return(Named(artists \o more), TRUE)

get_artists_anime(p) ==
    LET first == IF Truthy(p.result.extras.artist)
                 THEN <<p.result.extras.artist>> ELSE <<>>
        more == IF Truthy(p.result.extras.original_artist)
                THEN <<p.result.extras.original_artist>> ELSE <<>>
    IN  Return(Named(first \o more), TRUE)

get_artists(p) ==
    IF p.class = NekoParseMusic THEN get_artists_music(p)
    ELSE IF p.class \in {NekoParseAnime, NekoParseCartoon}
    THEN get_artists_anime(p)
    ELSE Return(None, TRUE)

\* work_link["work"][k] = v
PutWork(work_link, k, v) == Put(work_link, "work", Put(work_link.work, k, v))

\* variant: the work link returned whether or not it has a link type
get_works_music_unchecked(p) ==
    LET extras == p.result.extras
        work_link == [work |-> [work_type |-> [query_name |-> "anime"]]]
        filled ==
            IF Truthy(extras.opening)
            THEN PutWork(Put(Put(work_link, "link_type", "OP"),
                             "link_type_number", extras.opening_nbr),
                         "title", extras.opening)
            ELSE IF Truthy(extras.ending)
            THEN PutWork(Put(Put(work_link, "link_type", "ED"),
                             "link_type_number", extras.ending_nbr),
                         "title", extras.ending)
            ELSE IF Truthy(extras.insert_song)
            THEN PutWork(Put(work_link, "link_type", "IN"),
                         "title", extras.insert_song)
            ELSE IF Truthy(extras.image_song)
            THEN PutWork(Put(work_link, "link_type", "IS"),
                         "title", extras.image_song)
            ELSE work_link
    IN  Return(<<filled>>, TRUE)

get_works_music(p) ==
    LET extras == p.result.extras
        work_link == [work |-> [work_type |-> [query_name |-> "anime"]]]
        filled ==
            IF Truthy(extras.opening)
            THEN PutWork(Put(Put(work_link, "link_type", "OP"),
                             "link_type_number", extras.opening_nbr),
                         "title", extras.opening)
            ELSE IF Truthy(extras.ending)
            THEN PutWork(Put(Put(work_link, "link_type", "ED"),
                             "link_type_number", extras.ending_nbr),
                         "title", extras.ending)
            ELSE IF Truthy(extras.insert_song)
            THEN PutWork(Put(work_link, "link_type", "IN"),
                         "title", extras.insert_song)
            ELSE IF Truthy(extras.image_song)
            THEN PutWork(Put(work_link, "link_type", "IS"),
                         "title", extras.image_song)
            ELSE work_link
    IN  IF HasKey(filled, "link_type") /\ Truthy(filled.link_type)
        THEN Return(<<filled>>, TRUE)
        ELSE Super("get_works", TRUE)

\* variant: the ending flag tested before the opening flag
set_work_anime_cartoon_ending_first(p, work_link) ==
    LET tags == p.result.tags
        with_episodes == Put(work_link, "episodes", p.result.extras.episodes)
    IN  IF tags.ending
        THEN Put(Put(with_episodes, "link_type", "ED"),
                 "link_type_number", tags.ending_nbr)
        ELSE IF tags.opening
        THEN Put(Put(with_episodes, "link_type", "OP"),
                 "link_type_number", tags.opening_nbr)
        ELSE IF tags.insert_song
        THEN Put(with_episodes, "link_type", "IN")
        ELSE IF tags.image_song
        THEN Put(with_episodes, "link_type", "IS")
        ELSE with_episodes

set_work_anime_cartoon(p, work_link) ==
    LET tags == p.result.tags
        with_episodes == Put(work_link, "episodes", p.result.extras.episodes)
    IN  IF tags.opening
        THEN Put(Put(with_episodes, "link_type", "OP"),
                 "link_type_number", tags.opening_nbr)
        ELSE IF tags.ending
        THEN Put(Put(with_episodes, "link_type", "ED"),
                 "link_type_number", tags.ending_nbr)
        ELSE IF tags.insert_song
        THEN Put(with_episodes, "link_type", "IN")
        ELSE IF tags.image_song
        THEN Put(with_episodes, "link_type", "IS")
        ELSE with_episodes

\* self.SUBDIRECTORIES is no attribute of Song: has_attribute tells whether
\* the base class resolves it.  If it does not, reading it raises
\* AttributeError; if it does, the table found never equals a directory name.
get_works_anime(p, self_subdirectory, has_attribute) ==
    LET work_link == [work |-> [work_type |-> EmptyDict]]
        titled == PutWork(work_link, "title", p.result.title_anime)
        subtitled == IF Truthy(p.result.subtitle_anime)
                     THEN PutWork(titled, "subtitle", p.result.subtitle_anime)
                     ELSE titled
    IN  IF self_subdirectory = SUBDIRECTORIES.anime
        THEN Return(<<set_work_anime_cartoon(p,
                        PutWork(subtitled, "work_type",
                                [query_name |-> "anime"]))>>, TRUE)
        ELSE IF ~has_attribute
        THEN Raise("AttributeError", TRUE)
        ELSE Return(<<set_work_anime_cartoon(p, subtitled)>>, TRUE)

get_works_cartoon(p) ==
    LET work_link == [work |-> [work_type |-> [query_name |-> "cartoon"]]]
        titled == PutWork(work_link, "title", p.result.title_cartoon)
        subtitled == IF Truthy(p.result.subtitle_cartoon)
                     THEN PutWork(titled, "subtitle", p.result.subtitle_cartoon)
                     ELSE titled
    IN  Return(<<set_work_anime_cartoon(p, subtitled)>>, TRUE)

get_works(p, self_subdirectory, has_attribute) ==
    IF p.class = NekoParseMusic THEN get_works_music(p)
    ELSE IF p.class = NekoParseAnime
    THEN get_works_anime(p, self_subdirectory, has_attribute)
    ELSE IF p.class = NekoParseCartoon THEN get_works_cartoon(p)
    ELSE Return(None, TRUE)

\* the serializers of the entries of a table whose flag is set, from the
\* i-th entry on, leaving out the categories to skip
RECURSIVE tags_list(_, _, _, _)
tags_list(table, i, flags, skipped) ==
    IF i > Len(table) THEN <<>>
    ELSE IF table[i].category \in skipped
    THEN tags_list(table, i + 1, flags, skipped)
    ELSE IF flags[table[i].name]
    THEN <<[name |-> table[i].serializer]>>
            \o tags_list(table, i + 1, flags, skipped)
    ELSE tags_list(table, i + 1, flags, skipped)

get_tags_music(p) ==
    Return(tags_list(NekoParseTagsMusic_tags, 1, p.result.tags, {}), TRUE)

get_tags_anime(p) ==
    Return(tags_list(NekoParseTagsAnime_tags, 1, p.result.tags, {"use"}), TRUE)

get_tags(p) ==
    IF p.class = NekoParseMusic THEN get_tags_music(p)
    ELSE IF p.class \in {NekoParseAnime, NekoParseCartoon}
    THEN get_tags_anime(p)
    ELSE Return(None, TRUE)

get_version_cartoon(p) ==
    Return(Join(CommaSpace,
                Filter(<<p.result.extras.version, p.result.language>>)), TRUE)

get_version(p) ==
    IF p.class = NekoParseCartoon THEN get_version_cartoon(p)
    ELSE Return(p.result.extras.version, TRUE)

get_detail(p) == Return(p.result.details, TRUE)

\* variant: the three extras appended without the tests of emptiness
get_detail_video_untested(p) ==
    LET extras == p.result.extras
    IN  Return(Join(CommaSpace,
                    <<extras.video, extras.amv, extras.title_video>>), TRUE)

get_detail_video(p) ==
    LET extras == p.result.extras
        detail_video_list ==
            (IF NonEmpty(extras.video) THEN <<extras.video>> ELSE <<>>)
            \o (IF NonEmpty(extras.amv) THEN <<extras.amv>> ELSE <<>>)
            \o (IF NonEmpty(extras.title_video)
                THEN <<extras.title_video>> ELSE <<>>)
    IN  Return(Join(CommaSpace, detail_video_list), TRUE)

\* the call of an accessor by get_representation, once pre_process returned
Call(name, outcome) ==
    /\ pc = "processed"
    /\ ret' = [accessor |-> name,
               outcome |-> default_if_cannot_parse(can_parse, parser, name,
                                                   outcome)]
    /\ UNCHANGED <<video_path, pc, can_parse, subdirectory, parser, attempts>>

GetTitle == Call("get_title", get_title(parser))

GetArtists == Call("get_artists", get_artists(parser))

GetWorks ==
    \E has_attribute \in BOOLEAN :
        Call("get_works", get_works(parser, subdirectory, has_attribute))

GetTags == Call("get_tags", get_tags(parser))

GetVersion == Call("get_version", get_version(parser))

GetDetail == Call("get_detail", get_detail(parser))

GetDetailVideo == Call("get_detail_video", get_detail_video(parser))

Next ==
    \/ PreProcess
    \/ GetTitle
    \/ GetArtists
    \/ GetWorks
    \/ GetTags
    \/ GetVersion
    \/ GetDetail
    \/ GetDetailVideo

Spec == Init /\ [][Next]_vars

----------------------------------------------------------------------------
(* Properties *)

\* the first segment of the path under the base directory, "" at its root
FirstSegment ==
    IF Len(video_path.dirs) = 0 THEN "" ELSE video_path.dirs[1]

MusicDirectories == {"CJKmusic", "Wmusic"}
AnimeDirectories == {"Anime", "Live Action", "Jeux"}
CartoonDirectories == {"Dessins animes"}
OtherDirectories == {"Autre"}

ConventionDirectories ==
    MusicDirectories \cup AnimeDirectories \cup CartoonDirectories

TableDirectories == ConventionDirectories \cup OtherDirectories

\* the parser type the table fixes for a directory of a convention
TableClass(d) ==
    IF d \in MusicDirectories THEN "NekoParseMusic"
    ELSE IF d \in AnimeDirectories THEN "NekoParseAnime"
    ELSE "NekoParseCartoon"

Processed == pc = "processed"

\* the accessor of that name has been called and gave this outcome
Called(name) == Processed /\ ret.accessor = name

Parsed(class) == Processed /\ can_parse = TRUE /\ parser.class = class

\* C1: for a file whose first path segment is in the table, pre_process
\* invokes the parser type of the table and no other, whatever the stem; under
\* Autre it invokes none and sets can_parse to false.
C1_DirectoryRouting ==
    Processed =>
        /\ FirstSegment \in ConventionDirectories =>
              /\ attempts = <<TableClass(FirstSegment)>>
              /\ parser.class = TableClass(FirstSegment)
        /\ FirstSegment \in OtherDirectories =>
              /\ attempts = <<>>
              /\ can_parse = FALSE
              /\ parser = NoParser

C1_Witness ==
    /\ Processed
    /\ FirstSegment = "Jeux"
    /\ video_path.stem = {"NekoParseMusic", "NekoParseCartoon"}
    /\ attempts = <<"NekoParseAnime">>

\* the position in Music, Anime, Cartoon of the first convention that accepts
\* the stem, 0 when none does
FirstAccepting(stem) ==
    IF "NekoParseMusic" \in stem THEN 1
    ELSE IF "NekoParseAnime" \in stem THEN 2
    ELSE IF "NekoParseCartoon" \in stem THEN 3
    ELSE 0

\* C2: for a file whose subdirectory is not in the table (the root included),
\* pre_process tries Music, then Anime, then Cartoon, stops at the first that
\* succeeds and keeps it with can_parse true; if all three fail can_parse is
\* false.
C2_TrialOrder ==
    (Processed /\ FirstSegment \notin TableDirectories) =>
        LET order == <<"NekoParseMusic", "NekoParseAnime", "NekoParseCartoon">>
            k == FirstAccepting(video_path.stem)
        IN  IF k = 0
            THEN attempts = order /\ can_parse = FALSE
            ELSE /\ attempts = SubSeq(order, 1, k)
                 /\ can_parse = TRUE
                 /\ parser.class = order[k]
                 /\ parser.parsed

C2_Witness ==
    /\ Processed
    /\ FirstSegment = ""
    /\ video_path.stem = {"NekoParseAnime", "NekoParseCartoon"}
    /\ attempts = <<"NekoParseMusic", "NekoParseAnime">>
    /\ can_parse = TRUE

\* C3: when the parser selected by a recognized subdirectory rejects the
\* stem, the song is marked unparseable and no other convention is tried,
\* even one that accepts the stem.
C3_NoFallback ==
    (/\ Processed
     /\ FirstSegment \in ConventionDirectories
     /\ TableClass(FirstSegment) \notin video_path.stem) =>
        /\ can_parse = FALSE
        /\ attempts = <<TableClass(FirstSegment)>>
        /\ ~parser.parsed

C3_Witness ==
    /\ Processed
    /\ FirstSegment = "Anime"
    /\ video_path.stem = {"NekoParseMusic", "NekoParseCartoon"}
    /\ can_parse = FALSE

\* C4: whenever can_parse is false after pre_process, every accessor returns
\* the value of the base class's method of its name and does not read the
\* parser.
C4_DefaultIfCannotParse ==
    (Processed /\ can_parse = FALSE /\ ret.accessor # "none") =>
        /\ ret.outcome.kind = "default"
        /\ ret.outcome.of = ret.accessor
        /\ ~ret.outcome.read_parser

C4_Witness ==
    /\ Called("get_works")
    /\ can_parse = FALSE
    /\ FirstSegment = "Live Action"
    /\ video_path.stem = {"NekoParseMusic"}
    /\ ret.outcome.kind = "default"

\* C5 as stated: over any execution of pre_process the number of parse
\* invocations is exactly one.
C5_ExactlyOneAttempt == Processed => Len(attempts) = 1

\* C5 amended: the number of parse invocations is exactly one under a
\* directory of a convention, zero under Autre, and from one to three under
\* any other directory: every convention tried before the last one rejected
\* the stem, and fewer than three are tried only if the last one accepted it.
C5_AttemptCount ==
    Processed =>
        /\ FirstSegment \in ConventionDirectories => Len(attempts) = 1
        /\ FirstSegment \in OtherDirectories => Len(attempts) = 0
        /\ FirstSegment \notin TableDirectories =>
              /\ Len(attempts) \in 1 .. 3
              /\ \A i \in 1 .. Len(attempts) - 1 :
                    attempts[i] \notin video_path.stem
              /\ Len(attempts) < 3 =>
                    attempts[Len(attempts)] \in video_path.stem

C5_Witness ==
    /\ Processed
    /\ FirstSegment = "Divers"
    /\ Len(attempts) = 3
    /\ can_parse = TRUE

\* the work type the subdirectory stands for
WorkTypeOf(d) ==
    IF d = "Anime" THEN "anime"
    ELSE IF d = "Live Action" THEN "live-action"
    ELSE "game"

\* C6: for a file parsed with the Anime convention under Anime, Live Action
\* or Jeux, get_works returns exactly one work link, titled with the anime
\* title, whose work type is anime, live-action or game respectively.
C6_AnimeWorkType ==
    (/\ Called("get_works")
     /\ Parsed("NekoParseAnime")
     /\ FirstSegment \in AnimeDirectories) =>
        /\ ret.outcome.kind = "value"
        /\ Len(ret.outcome.value) = 1
        /\ LET work == ret.outcome.value[1].work
           IN  /\ work.title = parser.result.title_anime
               /\ "query_name" \in DOMAIN work.work_type
               /\ work.work_type.query_name = WorkTypeOf(FirstSegment)

\* C7: for a file parsed with the Music convention, get_works returns one
\* work link from the first non-empty extra among opening, ending,
\* insert_song and image_song (OP, ED, IN, IS, titled with that extra, with a
\* number only for OP and ED), and the base class's value when none is set.
C7_MusicWorks ==
    (Called("get_works") /\ Parsed("NekoParseMusic")) =>
        LET e == parser.result.extras
            o == ret.outcome
            OneLink(type, title) ==
                /\ o.kind = "value"
                /\ Len(o.value) = 1
                /\ o.value[1].link_type = type
                /\ o.value[1].work.title = title
            Numbered(n) ==
                /\ "link_type_number" \in DOMAIN o.value[1]
                /\ o.value[1].link_type_number = n
            Unnumbered == "link_type_number" \notin DOMAIN o.value[1]
        IN  IF e.opening # ""
            THEN OneLink("OP", e.opening) /\ Numbered(e.opening_nbr)
            ELSE IF e.ending # ""
            THEN OneLink("ED", e.ending) /\ Numbered(e.ending_nbr)
            ELSE IF e.insert_song # ""
            THEN OneLink("IN", e.insert_song) /\ Unnumbered
            ELSE IF e.image_song # ""
            THEN OneLink("IS", e.image_song) /\ Unnumbered
            ELSE o.kind = "default" /\ o.of = "get_works"

C7_Witness ==
    /\ Called("get_works")
    /\ Parsed("NekoParseMusic")
    /\ parser.result.extras.opening = ""
    /\ parser.result.extras.ending = ""
    /\ parser.result.extras.insert_song = "WorkC"
    /\ parser.result.extras.image_song = "WorkD"
    /\ ret.outcome.kind = "value"
    /\ ret.outcome.value[1].link_type = "IN"

\* C8: for a parseable file of any convention, get_detail_video returns the
\* non-empty values among video, amv and title_video, in that order, with
\* ", " between two consecutive ones and nowhere else.
C8_DetailVideo ==
    (Called("get_detail_video") /\ can_parse = TRUE) =>
        LET v == parser.result.extras.video
            a == parser.result.extras.amv
            t == parser.result.extras.title_video
            r == ret.outcome.value
            afterVideo == IF Len(v) > 0 /\ Len(a) > 0 THEN <<",", " ">>
                          ELSE <<>>
            beforeTitle == IF Len(t) > 0 /\ (Len(v) > 0 \/ Len(a) > 0)
                           THEN <<",", " ">> ELSE <<>>
        IN  /\ ret.outcome.kind = "value"
            /\ r = v \o afterVideo \o a \o beforeTitle \o t
            /\ (v = <<"A">> /\ a = <<>> /\ t = <<"C">>) =>
                  r = <<"A", ",", " ", "C">>
            /\ Len(r) > 0 => (r[1] # "," /\ r[Len(r)] # " ")
            /\ \A i \in 1 .. Len(r) - 1 : r[i] = " " => r[i + 1] # ","

C8_Witness ==
    /\ Called("get_detail_video")
    /\ can_parse = TRUE
    /\ parser.result.extras.video = <<"A">>
    /\ parser.result.extras.amv = <<>>
    /\ parser.result.extras.title_video = <<"C">>
    /\ ret.outcome.value = <<"A", ",", " ", "C">>

\* C9: for a file parsed with the Anime or the Cartoon convention, every
\* work link get_works returns has the episodes of the extras, the link type
\* of the first set flag among opening, ending, insert_song and image_song
\* (OP, ED, IN, IS), and a number if and only if the type is OP or ED, then
\* the number of that opening or ending.
C9_AnimeCartoonLink ==
    (/\ Called("get_works")
     /\ (Parsed("NekoParseAnime") \/ Parsed("NekoParseCartoon"))
     /\ ret.outcome.kind = "value") =>
        LET link == ret.outcome.value[1]
            tags == parser.result.tags
            Typed(type) ==
                "link_type" \in DOMAIN link /\ link.link_type = type
            Numbered(n) ==
                /\ "link_type_number" \in DOMAIN link
                /\ link.link_type_number = n
        IN  /\ Len(ret.outcome.value) = 1
            /\ "episodes" \in DOMAIN link
            /\ link.episodes = parser.result.extras.episodes
            /\ tags.opening => Typed("OP") /\ Numbered(tags.opening_nbr)
            /\ (~tags.opening /\ tags.ending) =>
                  Typed("ED") /\ Numbered(tags.ending_nbr)
            /\ (~tags.opening /\ ~tags.ending /\ tags.insert_song) =>
                  Typed("IN")
            /\ (~tags.opening /\ ~tags.ending /\ ~tags.insert_song
                    /\ tags.image_song) => Typed("IS")
            /\ "link_type_number" \in DOMAIN link <=>
                  (Typed("OP") \/ Typed("ED"))

C9_Witness ==
    /\ Called("get_works")
    /\ Parsed("NekoParseCartoon")
    /\ parser.result.tags.opening
    /\ parser.result.tags.ending
    /\ parser.result.tags.opening_nbr = 1
    /\ parser.result.tags.ending_nbr = 0
    /\ parser.result.extras.episodes = "1, 2"
    /\ ret.outcome.kind = "value"
    /\ ret.outcome.value[1].link_type = "OP"

\* C10: every work link of a list returned by get_works has a link_type, one
\* of OP, ED, IN, IS.
C10_LinkTypePresent ==
    (Called("get_works") /\ ret.outcome.kind = "value") =>
        \A i \in 1 .. Len(ret.outcome.value) :
            /\ "link_type" \in DOMAIN ret.outcome.value[i]
            /\ ret.outcome.value[i].link_type \in {"OP", "ED", "IN", "IS"}

====
